---- MODULE Spec2Model ----
(***************************************************************************)
(* Model of filter/main.cc: the host program (main, opencl_main,           *)
(* profile_filter) driving the OpenCL kernel count_positive over an        *)
(* in-order command queue, and the lanes (work-items) of the kernel, one   *)
(* step per kernel statement.                                              *)
(*                                                                         *)
(* Device arrays are functions over 0..len-1 so that the kernel's index    *)
(* arithmetic (k * m + t) is kept; std::vector results are sequences.      *)
(* Floats are modelled by the integers of Vals: the only operation the     *)
(* program applies to them is the comparison x > 0.                        *)
(*                                                                         *)
(* The OpenCL runtime is an external library.  Its behaviour is modelled   *)
(* after OpenCL 1.2 (CL_HPP_TARGET_OPENCL_VERSION 120) with exceptions     *)
(* enabled (CL_HPP_ENABLE_EXCEPTIONS): every failing call throws cl::Error;*)
(* a buffer of size 0 is CL_INVALID_BUFFER_SIZE; a global size that is 0   *)
(* or not a multiple of the local size is rejected by                      *)
(* clEnqueueNDRangeKernel; a queue created without properties is in-order; *)
(* cl::copy and the iterator constructor of cl::Buffer block until done.   *)
(***************************************************************************)
EXTENDS Integers, Sequences, FiniteSets, TLC

\* main.cc:66 sets local_sz = 256; the model scales the work-group size down.
local_sz == 2

\* main.cc:98, the capacity of the kernel's local buffer.
BUFFSIZE == 1024

\* profile_filter is called with n = 1024*1024 (main.cc:94); the model lets n
\* range over 0..MaxN to cover the lengths the claims speak about.
MaxN == 4

\* Stand-ins for the floats of the input: negative, zero, positive.
Vals == {-1, 0, 1}

VARIABLES
    pc,             \* host: the next statement of main / profile_filter
    exited,         \* host: main has returned
    exitCode,       \* host: the value main returned
    printed,        \* host: the "filter" timing row was printed
    n,              \* profile_filter's parameter
    input,          \* std::vector<float> input
    bins,           \* std::vector<int> bins
    result,         \* std::vector<float> result
    result_gpu,     \* std::vector<float> result_gpu
    d_input,        \* cl::Buffer d_input (<< >> until uploaded)
    d_bins,         \* cl::Buffer d_bins (<< >> until allocated)
    queue,          \* opencl.queue: commands enqueued and not yet complete
    launched,       \* device: the work-groups of count_positive were started
    mapped,         \* device: the blocking map of d_bins for cl::copy completed
    lpc,            \* lane (k,t): position in count_positive
    priv,           \* lane (k,t): private variables j and cnt
    buff,           \* group k: local float buff[]
    \* history variables (not program state)
    log,            \* the host steps executed, in order
    failedAt,       \* the host step that failed, "none" if none did
    buffWriters,    \* per group and slot: the lanes that wrote buff[slot]
    resultWriters,  \* per index of result[]: the lanes that wrote it, in order
    inputReads,     \* indices of a[] read by lanes
    oobAccess,      \* accesses outside an array: <<array, index>>
    staleReads      \* <<k, j>>: buff[j] of group k read before it was written

hostVars == <<pc, exited, exitCode, printed, n, input, bins, result, result_gpu>>
devVars  == <<d_input, d_bins, queue, launched, mapped, lpc, priv, buff>>
histVars == <<log, failedAt, buffWriters, resultWriters, inputReads, oobAccess, staleReads>>
laneVars == <<lpc, priv, buff, buffWriters, resultWriters, inputReads, oobAccess, staleReads>>
vars == <<hostVars, devVars, histVars>>

--------------------------------------------------------------------------
(* Pure helpers *)

\* the lambda of main.cc:73, [] (float x) { return x > 0; }
HostPredicate(x) == x > 0

PredicateGE(x) == x >= 0
\* the test of main.cc:122, buff[j] > 0
Predicate(x) == x > 0

AddrNoGroup(k, m, t) == t
\* the index of main.cc:116, k * m + t
Addr(k, m, t) == k * m + t

ElectedAll(t) == TRUE
\* the test of main.cc:119, t == 0
Elected(t) == t = 0

\* filter(input, result, pred) of filter.hh: the order-preserving subsequence
\* of a[0..len-1] (a single pass appending every element satisfying pred).
RECURSIVE SequentialFilter(_, _)
SequentialFilter(a, len) ==
    IF len = 0 THEN << >>
    ELSE LET front == SequentialFilter(a, len - 1)
         IN  IF HostPredicate(a[len - 1]) THEN Append(front, a[len - 1]) ELSE front

\* bins.size() of main.cc:67, n / local_sz (integer division)
BinsSize(len) == len \div local_sz

\* an in-order queue (main.cc:160, no properties) runs only its oldest command
ReadyAny(i) == TRUE
Ready(i) == i = 1

\* clCreateBuffer rejects a size of 0
BufferSizeValid(len) == len > 0

DispatchAnySize(global, local) == global > 0
\* clEnqueueNDRangeKernel (OpenCL 1.2): global size nonzero and a multiple of
\* the local size
DispatchValid(global, local) == global > 0 /\ global % local = 0

\* the number of elements of a device array or vector indexed from 0
Size(f) == Cardinality(DOMAIN f)

RemoveAt(s, i) == [x \in 1..(Len(s) - 1) |-> IF x < i THEN s[x] ELSE s[x + 1]]

InQueue(c) == \E i \in 1..Len(queue) : queue[i] = c

--------------------------------------------------------------------------
(* Host: main, opencl_main, profile_filter *)

Init ==
    /\ pc = "platforms"
    /\ exited = FALSE
    /\ exitCode = 0
    /\ printed = FALSE
    /\ n = 0
    /\ input = << >>
    /\ bins = << >>
    /\ result = << >>
    /\ result_gpu = << >>
    /\ d_input = << >>
    /\ d_bins = << >>
    /\ queue = << >>
    /\ launched = FALSE
    /\ mapped = FALSE
    /\ lpc = << >>
    /\ priv = << >>
    /\ buff = << >>
    /\ log = << >>
    /\ failedAt = "none"
    /\ buffWriters = << >>
    /\ resultWriters = << >>
    /\ inputReads = {}
    /\ oobAccess = {}
    /\ staleReads = {}

\* With CL_HPP_ENABLE_EXCEPTIONS undefined a failing call returns and the
\* program carries on with the next statement.
ThrowIgnored(step, next) ==
    /\ pc' = next
    /\ log' = Append(log, step)
    /\ failedAt' = step
    /\ UNCHANGED <<exited, exitCode>>
\* a call of `step` throws: the catch clauses of main (main.cc:163-172) return 1
Throw(step, next) ==
    /\ pc' = "failed"
    /\ exited' = TRUE
    /\ exitCode' = 1
    /\ log' = Append(log, step)
    /\ failedAt' = step

\* `step` succeeds and control passes to `next`
Advance(step, next) ==
    /\ pc' = next
    /\ log' = Append(log, step)
    /\ UNCHANGED <<exited, exitCode, failedAt>>

hostData == <<printed, n, input, bins, result, result_gpu>>
histData == <<buffWriters, resultWriters, inputReads, oobAccess, staleReads>>

\* main.cc:133-140
GetPlatforms ==
    /\ pc = "platforms" /\ ~exited
    /\ \/ Advance("platforms", "context")
       \/ Throw("platforms", "context")
       \/ \* platforms.empty(): return 1
          /\ pc' = "failed" /\ exited' = TRUE /\ exitCode' = 1
          /\ log' = Append(log, "platforms") /\ failedAt' = "platforms"
    /\ UNCHANGED <<hostData, devVars, histData>>

\* main.cc:142-148
CreateContext ==
    /\ pc = "context" /\ ~exited
    /\ \/ Advance("context", "build")
       \/ Throw("context", "build")
    /\ UNCHANGED <<hostData, devVars, histData>>

\* main.cc:149-159: a build failure prints the log and rethrows
BuildProgram ==
    /\ pc = "build" /\ ~exited
    /\ \/ Advance("build", "queue")
       \/ Throw("build", "queue")
    /\ UNCHANGED <<hostData, devVars, histData>>

\* main.cc:160-162
CreateQueue ==
    /\ pc = "queue" /\ ~exited
    /\ \/ Advance("queue", "input")
       \/ Throw("queue", "input")
    /\ UNCHANGED <<hostData, devVars, histData>>

\* main.cc:64-70 (called from opencl_main, main.cc:91-95)
GenInput ==
    /\ pc = "input" /\ ~exited
    /\ \E len \in 0..MaxN :
         \E a \in [0..(len - 1) -> Vals] :
            /\ n' = len
            /\ input' = a
            /\ bins' = [i \in 0..(BinsSize(len) - 1) |-> 0]
    /\ result' = << >>
    /\ result_gpu' = << >>
    /\ Advance("input", "kernel")
    /\ UNCHANGED <<printed, devVars, histData>>

\* main.cc:71
CreateKernel ==
    /\ pc = "kernel" /\ ~exited
    /\ \/ Advance("kernel", "reference")
       \/ Throw("kernel", "reference")
    /\ UNCHANGED <<hostData, devVars, histData>>

\* main.cc:73
Reference ==
    /\ pc = "reference" /\ ~exited
    /\ result' = SequentialFilter(input, n)
    /\ Advance("reference", "upload")
    /\ UNCHANGED <<printed, n, input, bins, result_gpu, devVars, histData>>

\* main.cc:75, cl::Buffer(queue, begin, end, false): clCreateBuffer, then
\* cl::copy of the host range into the buffer, which the constructor awaits
UploadInput ==
    /\ pc = "upload" /\ ~exited
    /\ \/ /\ BufferSizeValid(n)
          /\ queue' = Append(queue, "write")
          /\ Advance("upload", "upload_wait")
       \/ /\ Throw("upload", "upload_wait")
          /\ UNCHANGED queue
    /\ UNCHANGED <<hostData, d_input, d_bins, launched, mapped, lpc, priv, buff, histData>>

\* main.cc:75, the end of cl::copy: endEvent.wait()
UploadWait ==
    /\ pc = "upload_wait" /\ ~exited
    /\ ~InQueue("write")
    /\ pc' = "alloc"
    /\ UNCHANGED <<exited, exitCode, hostData, devVars, histVars>>

\* main.cc:76: the contents of a new buffer are unspecified, and the kernel
\* overwrites every entry before the host reads it; resultWriters records
\* which entries hold a written value
AllocBins ==
    /\ pc = "alloc" /\ ~exited
    /\ \/ /\ BufferSizeValid(Size(bins))
          /\ d_bins' = [i \in 0..(Size(bins) - 1) |-> 0]
          /\ resultWriters' = [i \in 0..(Size(bins) - 1) |-> << >>]
          /\ Advance("alloc", "finish")
       \/ /\ Throw("alloc", "finish")
          /\ UNCHANGED <<d_bins, resultWriters>>
    /\ UNCHANGED <<hostData, d_input, queue, launched, mapped, lpc, priv, buff,
                   buffWriters, inputReads, oobAccess, staleReads>>

\* main.cc:77, queue.finish(): returns once the queue is empty
Finish ==
    /\ pc = "finish" /\ ~exited
    /\ queue = << >>
    /\ \/ Advance("finish", "setargs")
       \/ Throw("finish", "setargs")
    /\ UNCHANGED <<hostData, devVars, histData>>

\* main.cc:78-80
SetArgs ==
    /\ pc = "setargs" /\ ~exited
    /\ \/ Advance("setargs", "dispatch")
       \/ Throw("setargs", "dispatch")
    /\ UNCHANGED <<hostData, devVars, histData>>

\* main.cc:82, enqueueNDRangeKernel(kernel, NullRange, NDRange(n), NDRange(local_sz))
Dispatch ==
    /\ pc = "dispatch" /\ ~exited
    /\ \/ /\ DispatchValid(n, local_sz)
          /\ queue' = Append(queue, "kernel")
          /\ Advance("dispatch", "flush")
       \/ /\ Throw("dispatch", "flush")
          /\ UNCHANGED queue
    /\ UNCHANGED <<hostData, d_input, d_bins, launched, mapped, lpc, priv, buff, histData>>

\* main.cc:83, queue.flush(): submits, does not wait
Flush ==
    /\ pc = "flush" /\ ~exited
    /\ \/ Advance("flush", "copyout")
       \/ Throw("flush", "copyout")
    /\ UNCHANGED <<hostData, devVars, histData>>

\* main.cc:85, cl::copy(queue, d_bins, begin(bins), end(bins)): a blocking
\* enqueueMapBuffer of the whole buffer
CopyOut ==
    /\ pc = "copyout" /\ ~exited
    /\ \/ /\ queue' = Append(queue, "map")
          /\ Advance("copyout", "copyout_wait")
       \/ /\ Throw("copyout", "copyout_wait")
          /\ UNCHANGED queue
    /\ UNCHANGED <<hostData, d_input, d_bins, launched, mapped, lpc, priv, buff, histData>>

\* main.cc:85, the rest of cl::copy: std::copy from the mapped region to bins
CopyOutWait ==
    /\ pc = "copyout_wait" /\ ~exited
    /\ mapped
    /\ bins' = d_bins
    /\ pc' = "verify"
    /\ UNCHANGED <<exited, exitCode, printed, n, input, result, result_gpu, devVars, histVars>>

\* verify_vector of linear-algebra.hh: returns when the vectors are equal;
\* on a difference it either reports and returns or throws std::exception
VerifyVector(expected, actual, next) ==
    \/ /\ expected = actual
       /\ Advance("verify", next)
    \/ /\ expected # actual
       /\ \/ Advance("verify", next)
          \/ Throw("verify", next)

\* main.cc:87
Verify ==
    /\ pc = "verify" /\ ~exited
    /\ VerifyVector(result, result_gpu, "print")
    /\ UNCHANGED <<hostData, devVars, histData>>

\* main.cc:88, print("filter", ...)
PrintTimings ==
    /\ pc = "print" /\ ~exited
    /\ printed' = TRUE
    /\ Advance("print", "return")
    /\ UNCHANGED <<n, input, bins, result, result_gpu, devVars, histData>>

\* main.cc:173
Return ==
    /\ pc = "return" /\ ~exited
    /\ pc' = "done"
    /\ exited' = TRUE
    /\ exitCode' = 0
    /\ UNCHANGED <<hostData, devVars, histVars>>

--------------------------------------------------------------------------
(* Device: the command queue *)

\* the upload enqueued by the constructor of d_input completes
ExecWrite ==
    /\ ~exited
    /\ \E i \in 1..Len(queue) :
         /\ queue[i] = "write" /\ Ready(i)
         /\ queue' = RemoveAt(queue, i)
    /\ d_input' = input
    /\ UNCHANGED <<hostVars, d_bins, launched, mapped, lpc, priv, buff, histVars>>

\* the NDRange of main.cc:82 starts: n / local_sz groups of local_sz lanes,
\* every lane at the first statement of count_positive
StartKernel ==
    /\ ~exited /\ ~launched
    /\ \E i \in 1..Len(queue) : queue[i] = "kernel" /\ Ready(i)
    /\ launched' = TRUE
    /\ LET groups == 0..((n \div local_sz) - 1)
           lanes  == 0..(local_sz - 1)
       IN  /\ lpc' = [k \in groups |-> [t \in lanes |-> "load"]]
           /\ priv' = [k \in groups |-> [t \in lanes |-> [j |-> 0, cnt |-> 0]]]
           /\ buff' = [k \in groups |-> [t \in lanes |-> 0]]
           /\ buffWriters' = [k \in groups |-> [t \in lanes |-> {}]]
    /\ UNCHANGED <<hostVars, d_input, d_bins, queue, mapped, log, failedAt,
                   resultWriters, inputReads, oobAccess, staleReads>>

AllLanesDone == \A k \in DOMAIN lpc : \A t \in DOMAIN lpc[k] : lpc[k][t] = "done"

\* the kernel command completes when every work-item has returned
FinishKernel ==
    /\ ~exited /\ launched
    /\ AllLanesDone
    /\ \E i \in 1..Len(queue) :
         /\ queue[i] = "kernel"
         /\ queue' = RemoveAt(queue, i)
    /\ UNCHANGED <<hostVars, d_input, d_bins, launched, mapped, lpc, priv, buff, histVars>>

\* the map enqueued by cl::copy (main.cc:85) completes
ExecMap ==
    /\ ~exited
    /\ \E i \in 1..Len(queue) :
         /\ queue[i] = "map" /\ Ready(i)
         /\ queue' = RemoveAt(queue, i)
    /\ mapped' = TRUE
    /\ UNCHANGED <<hostVars, d_input, d_bins, launched, lpc, priv, buff, histVars>>

--------------------------------------------------------------------------
(* Device: one lane (work-item) of count_positive, main.cc:109-127.        *)
(* k = get_group_id(0), t = get_local_id(0), m = get_local_size(0).        *)

Running(k, t) == ~exited /\ launched /\ k \in DOMAIN lpc /\ t \in DOMAIN lpc[k]

\* main.cc:116, buff[t] = a[k * m + t]
Load(k, t) ==
    /\ Running(k, t) /\ lpc[k][t] = "load"
    /\ LET m == local_sz
           i == Addr(k, m, t)
       IN  IF i \in DOMAIN d_input
           THEN /\ buff' = [buff EXCEPT ![k][t] = d_input[i]]
                /\ inputReads' = inputReads \cup {i}
                /\ UNCHANGED oobAccess
           ELSE \* a read outside a[]: any value
                /\ \E v \in Vals : buff' = [buff EXCEPT ![k][t] = v]
                /\ oobAccess' = oobAccess \cup {<<"a", i>>}
                /\ UNCHANGED inputReads
    /\ buffWriters' = [buffWriters EXCEPT ![k][t] = @ \cup {<<k, t>>}]
    /\ lpc' = [lpc EXCEPT ![k][t] = "barrier"]
    /\ UNCHANGED <<hostVars, d_input, d_bins, queue, launched, mapped, priv,
                   log, failedAt, resultWriters, staleReads>>

BarrierNoWait(k) == TRUE
\* barrier(CLK_LOCAL_MEM_FENCE): no lane of group k passes before every lane
\* of the group has arrived
BarrierOpen(k) == \A u \in DOMAIN lpc[k] : lpc[k][u] # "load"

\* main.cc:117-121: pass the barrier; the elected lane enters the loop with
\* cnt = 0 and j = 0, the others return
Barrier(k, t) ==
    /\ Running(k, t) /\ lpc[k][t] = "barrier"
    /\ BarrierOpen(k)
    /\ lpc' = [lpc EXCEPT ![k][t] = IF Elected(t) THEN "loop" ELSE "done"]
    /\ priv' = [priv EXCEPT ![k][t] = [j |-> 0, cnt |-> 0]]
    /\ UNCHANGED <<hostVars, d_input, d_bins, queue, launched, mapped, buff, histVars>>

\* main.cc:121-124, one iteration: if (buff[j] > 0) cnt++; j++
Loop(k, t) ==
    /\ Running(k, t) /\ lpc[k][t] = "loop"
    /\ LET m == local_sz
           j == priv[k][t].j
           cnt == priv[k][t].cnt
       IN  /\ j < m
           /\ IF buffWriters[k][j] # {}
              THEN /\ priv' = [priv EXCEPT ![k][t] =
                          [j |-> j + 1,
                           cnt |-> IF Predicate(buff[k][j]) THEN cnt + 1 ELSE cnt]]
                   /\ UNCHANGED staleReads
              ELSE \* a slot nobody has written: any value
                   /\ \E c \in {cnt, cnt + 1} :
                        priv' = [priv EXCEPT ![k][t] = [j |-> j + 1, cnt |-> c]]
                   /\ staleReads' = staleReads \cup {<<k, j>>}
    /\ UNCHANGED <<hostVars, d_input, d_bins, queue, launched, mapped, lpc, buff,
                   log, failedAt, buffWriters, resultWriters, inputReads, oobAccess>>

\* main.cc:121 (j < m fails) and main.cc:125, result[k] = cnt
Store(k, t) ==
    /\ Running(k, t) /\ lpc[k][t] = "loop"
    /\ priv[k][t].j >= local_sz
    /\ IF k \in DOMAIN d_bins
       THEN /\ d_bins' = [d_bins EXCEPT ![k] = priv[k][t].cnt]
            /\ resultWriters' = [resultWriters EXCEPT ![k] = Append(@, <<k, t>>)]
            /\ UNCHANGED oobAccess
       ELSE /\ oobAccess' = oobAccess \cup {<<"result", k>>}
            /\ UNCHANGED <<d_bins, resultWriters>>
    /\ lpc' = [lpc EXCEPT ![k][t] = "done"]
    /\ UNCHANGED <<hostVars, d_input, queue, launched, mapped, priv, buff,
                   log, failedAt, buffWriters, inputReads, staleReads>>

--------------------------------------------------------------------------

Next ==
    \/ GetPlatforms
    \/ CreateContext
    \/ BuildProgram
    \/ CreateQueue
    \/ GenInput
    \/ CreateKernel
    \/ Reference
    \/ UploadInput
    \/ UploadWait
    \/ AllocBins
    \/ Finish
    \/ SetArgs
    \/ Dispatch
    \/ Flush
    \/ CopyOut
    \/ CopyOutWait
    \/ Verify
    \/ PrintTimings
    \/ Return
    \/ ExecWrite
    \/ StartKernel
    \/ FinishKernel
    \/ ExecMap
    \/ \E k \in DOMAIN lpc : \E t \in DOMAIN lpc[k] : Load(k, t)
    \/ \E k \in DOMAIN lpc : \E t \in DOMAIN lpc[k] : Barrier(k, t)
    \/ \E k \in DOMAIN lpc : \E t \in DOMAIN lpc[k] : Loop(k, t)
    \/ \E k \in DOMAIN lpc : \E t \in DOMAIN lpc[k] : Store(k, t)

Spec == Init /\ [][Next]_vars

--------------------------------------------------------------------------
(* Vocabulary of the properties *)

CeilDiv(a, b) == (a + b - 1) \div b

Min(a, b) == IF a < b THEN a ELSE b

\* the number of elements a[i] > 0 with lo <= i < hi
CountPositive(a, lo, hi) == Cardinality({i \in lo..(hi - 1) : a[i] > 0})

\* f[0] + ... + f[len-1]
RECURSIVE SumTo(_, _)
SumTo(f, len) == IF len = 0 THEN 0 ELSE SumTo(f, len - 1) + f[len - 1]

\* the exclusive prefix sum of the count table at block i
Offset(f, i) == SumTo(f, i)

\* the elements of block k satisfying the predicate, in order
BlockFilter(k) ==
    SequentialFilter([i \in 0..(local_sz - 1) |-> input[k * local_sz + i]], local_sz)

NoDuplicates(s) == \A i, j \in 1..Len(s) : s[i] = s[j] => i = j

KernelComplete == launched /\ AllLanesDone

\* the host has read the count table back into bins
BinsReadBack == pc \in {"verify", "print", "return", "done"} \/ failedAt = "verify"

DispatchAttempted ==
    pc \in {"flush", "copyout", "copyout_wait", "verify", "print", "return", "done"}
    \/ failedAt \in {"dispatch", "flush", "copyout", "verify"}

--------------------------------------------------------------------------
(* The claims *)

\* C1: when the host compares the two results (verify_vector, main.cc:87),
\* the parallel result result_gpu equals the sequential reference result.
C1_GpuEqualsReference ==
    pc = "verify" => result_gpu = result

\* C2: once every lane of count_positive has returned, the count table has
\* ceil(N/L) entries and entry k is the number of input elements x > 0 with
\* index in [k*L, min((k+1)*L, N)).
C2_BlockCounts ==
    KernelComplete =>
        /\ DOMAIN d_bins = 0..(CeilDiv(n, local_sz) - 1)
        /\ \A k \in DOMAIN d_bins :
              d_bins[k] = CountPositive(input, k * local_sz,
                                        Min((k + 1) * local_sz, n))

C2_Witness ==
    /\ KernelComplete
    /\ Size(d_bins) >= 2
    /\ d_bins[0] # d_bins[1]

\* C3: once the host has read the count table back, the sum of bins equals
\* result.size(), which equals the number of input elements x > 0.
C3_SumEqualsReference ==
    BinsReadBack =>
        /\ SumTo(bins, Size(bins)) = Len(result)
        /\ Len(result) = CountPositive(input, 0, n)

C3_Witness ==
    /\ pc = "done"
    /\ Size(bins) >= 2
    /\ bins[0] > bins[1]
    /\ bins[1] > 0

C5_DestinationsExact ==
    pc = "done" =>
        {i - 1 : i \in DOMAIN result_gpu} = 0..(SumTo(bins, Size(bins)) - 1)

\* C6: the count table is not mapped for the host's read before every group
\* of count_positive has written its entry and the kernel command has
\* completed, and the kernel is neither enqueued nor started before the
\* upload of the input is complete.
C6_PhasesOrdered ==
    /\ mapped =>
          /\ KernelComplete
          /\ ~InQueue("kernel")
          /\ \A k \in DOMAIN resultWriters : resultWriters[k] # << >>
    /\ BinsReadBack => mapped
    /\ (launched \/ InQueue("kernel")) => (d_input = input /\ ~InQueue("write"))

C6_Witness ==
    /\ mapped
    /\ pc = "verify"
    /\ Size(bins) >= 2

\* C7: the output is laid out by the exclusive prefix sum of the count table:
\* offset[0] = 0, offset[i] = sum of count[j] for j < i, and the elements of
\* block i that satisfy the predicate occupy the output from offset[i] on.
C7_OffsetsAndOutput ==
    pc = "verify" =>
        \A k \in DOMAIN bins :
            /\ Len(result_gpu) >= Offset(bins, k) + bins[k]
            /\ SubSeq(result_gpu, Offset(bins, k) + 1, Offset(bins, k) + bins[k])
                  = BlockFilter(k)

\* C8: when a step fails the run is aborted: main has returned 1, the failed
\* step is the last one executed, the "filter" row was not printed, and no
\* step was executed twice.
C8_FailureAborts ==
    /\ NoDuplicates(log)
    /\ failedAt # "none" =>
          /\ exited
          /\ exitCode = 1
          /\ pc = "failed"
          /\ ~printed
          /\ log[Len(log)] = failedAt

C8_Witness ==
    /\ failedAt = "copyout"
    /\ exited
    /\ launched

\* C9: the elected lane never reads a slot of buff before its owner wrote
\* it, and while it is in its counting loop every lane of its group has
\* reached the barrier.
C9_BarrierBeforeCount ==
    /\ staleReads = {}
    /\ \A k \in DOMAIN lpc :
          lpc[k][0] = "loop" =>
              \A u \in DOMAIN lpc[k] :
                  /\ lpc[k][u] # "load"
                  /\ buffWriters[k][u] # {}

C9_Witness ==
    \E k, h \in DOMAIN lpc :
        /\ lpc[k][0] = "loop"
        /\ priv[k][0].j >= 1
        /\ \E u \in DOMAIN lpc[h] : lpc[h][u] = "load"

\* C10: every entry of the count table is written at most once, by lane 0 of
\* its own group, and exactly once when the kernel is complete; every slot
\* buff[t] is written only by lane t of its own group, with t < BUFFSIZE;
\* nothing is written outside an array and the device copy of the input
\* keeps the uploaded contents.
C10_SingleWriter ==
    /\ \A k \in DOMAIN resultWriters :
          /\ Len(resultWriters[k]) <= 1
          /\ \A i \in 1..Len(resultWriters[k]) : resultWriters[k][i] = <<k, 0>>
          /\ KernelComplete => Len(resultWriters[k]) = 1
    /\ \A k \in DOMAIN buffWriters :
          \A t \in DOMAIN buffWriters[k] :
              /\ buffWriters[k][t] \subseteq {<<k, t>>}
              /\ t < BUFFSIZE
    /\ oobAccess = {}
    /\ launched => d_input = input

C10_Witness ==
    /\ KernelComplete
    /\ Size(resultWriters) >= 2
    /\ \A k \in DOMAIN resultWriters : Len(resultWriters[k]) = 1

====
